---- MODULE Spec2Model ----
(***************************************************************************)
(* Model of the VSCode voice-dictation plugin: Action.Execute, the window  *)
(* inspector (Window.GetFocusedWindow) and the text injector               *)
(* (Clipboard.CopyToClipboard / Clipboard.PasteWithReturn, isX11).         *)
(*                                                                         *)
(* Strings are sequences of one-character strings, so that substring       *)
(* search, trimming and lower-casing are computed character by character.  *)
(* External commands (xdotool, xclip, pbcopy, robotgo.KeyTap) are recorded *)
(* in the log `events` in the order the code issues them; their outcomes   *)
(* are chosen nondeterministically.                                        *)
(***************************************************************************)
EXTENDS Naturals, Integers, Sequences, FiniteSets

VARIABLES
    goos,           \* runtime.GOOS: "darwin", "linux" or "other"
    session,        \* value of XDG_SESSION_TYPE ("" when unset)
    pc,             \* position of the Execute call chain
    text,           \* transcription, as a number of pipe hand-offs (chunks)
    events,         \* log of external calls, in issue order
    windowID,       \* stdout of `xdotool getactivewindow`
    nameArg,        \* argument passed to `xdotool getwindowname`
    focusedWindow,  \* result of GetFocusedWindow: NilWindow or [Title |-> ..]
    gfwErr,         \* error result of GetFocusedWindow
    called,         \* TRUE once Execute has called PasteWithReturn
    cmd,            \* the *exec.Cmd variable of CopyToClipboard
    copyRet,        \* return value of CopyToClipboard ("none" while running)
    pasteRet,       \* return value of PasteWithReturn
    execRet,        \* return value of Execute
    writer,         \* the goroutine of CopyToClipboard: none/write/close/done
    wLeft,          \* chunks of the Write not yet taken by a Read
    copier,         \* exec's stdin copy goroutine: none/read/write/done
    osBuf,          \* chunks buffered in the helper's stdin pipe
    helper          \* clipboard helper process: none/running/exited_ok/exited_fail

vars == <<goos, session, pc, text, events, windowID, nameArg, focusedWindow,
          gfwErr, called, cmd, copyRet, pasteRet, execRet, writer, wLeft,
          copier, osBuf, helper>>

----------------------------------------------------------------------------
(* Bounds of the model *)

\* largest transcription, in pipe hand-offs of one copy buffer each
MaxChunks == 2
\* capacity of the helper's stdin pipe, in the same unit
PipeCap == 1

----------------------------------------------------------------------------
(* Strings *)

NL == "\n"
WhiteSpace == {" ", "\t", "\n", "\r"}

RECURSIVE TrimLeft(_)
TrimLeft(s) ==
    IF s # <<>> /\ Head(s) \in WhiteSpace THEN TrimLeft(Tail(s)) ELSE s

RECURSIVE TrimRight(_)
TrimRight(s) ==
    IF s # <<>> /\ s[Len(s)] \in WhiteSpace
    THEN TrimRight(SubSeq(s, 1, Len(s) - 1))
    ELSE s

\* a trim that forgets the trailing white space
TrimSpace_LeftOnly(s) == TrimLeft(s)

\* strings.TrimSpace
TrimSpace(s) == TrimRight(TrimLeft(s))

\* unicode.ToLower on the characters the model uses
LowerChar(c) ==
    CASE c = "X" -> "x"
      [] c = "W" -> "w"
      [] c = "V" -> "v"
      [] c = "S" -> "s"
      [] c = "C" -> "c"
      [] OTHER   -> c

\* strings.ToLower
ToLower(s) == [i \in 1..Len(s) |-> LowerChar(s[i])]

HasPrefixAt(s, substr, i) ==
    /\ i + Len(substr) - 1 <= Len(s)
    /\ SubSeq(s, i, i + Len(substr) - 1) = substr

\* strings.Index: the first index (from 0) of substr in s, or -1
RECURSIVE IndexFrom(_, _, _)
IndexFrom(s, substr, i) ==
    IF i + Len(substr) - 1 > Len(s) THEN -1
    ELSE IF HasPrefixAt(s, substr, i) THEN i - 1
    ELSE IndexFrom(s, substr, i + 1)

\* a matcher that takes the letters of substr in order, not contiguously
RECURSIVE SubsequenceOf(_, _)
SubsequenceOf(s, substr) ==
    IF substr = <<>> THEN TRUE
    ELSE IF s = <<>> THEN FALSE
    ELSE IF Head(s) = Head(substr) THEN SubsequenceOf(Tail(s), Tail(substr))
    ELSE SubsequenceOf(Tail(s), substr)

\* a matcher that ignores case
ContainsFold(s, substr) == IndexFrom(ToLower(s), ToLower(substr), 1) >= 0

\* strings.Contains
Contains(s, substr) == IndexFrom(s, substr, 1) >= 0

----------------------------------------------------------------------------
(* The environment *)

GOOSValues == {"darwin", "linux", "other"}

SessionValues ==
    { <<>>,
      <<"x", "1", "1">>,
      <<"X", "1", "1">>,
      <<"x", "1", "2">>,
      <<"x", "1", "1", " ">>,
      <<"w", "a", "y", "l", "a", "n", "d">>,
      <<"W", "a", "y", "l", "a", "n", "d">>,
      <<"u", "n", "k", "n", "o", "w", "n">> }

\* the editor signature searched for in the window title
Signature == <<"V", "S", "C">>

VSCodeTitle ==
    <<"f", "i", "l", "e", ".", "p", "y", " ", "-", " ",
      "V", "i", "s", "u", "a", "l", " ",
      "S", "t", "u", "d", "i", "o", " ",
      "C", "o", "d", "e">>

TerminalTitle == <<"T", "e", "r", "m", "i", "n", "a", "l">>

\* the windows of the desktop: id and the title the window manager holds
Windows ==
    { [id |-> <<"7">>,      name |-> VSCodeTitle],
      [id |-> <<"8">>,      name |-> TerminalTitle],
      [id |-> <<"9">>,      name |-> <<>>],
      [id |-> <<"1", "0">>, name |-> <<"a", ".", "g", "o", " ", "-", " ", "V", "S", "C", "o", "d", "e">>],
      [id |-> <<"1", "1">>, name |-> <<" ", "V", "S", "C", " ">>],
      [id |-> <<"1", "2">>, name |-> <<"v", "s", "c", "o", "d", "e">>],
      [id |-> <<"1", "3">>, name |-> <<"V", "S", " ", "C", "o", "d", "e">>] }

\* stdout of `xdotool getwindowname <arg>`
WindowNameOutput(arg) ==
    (CHOOSE w \in Windows : w.id = arg).name \o <<NL>>

NilWindow == [isNil |-> TRUE, Title |-> <<>>]

Event(op, ok, ms) == [op |-> op, ok |-> ok, ms |-> ms]

----------------------------------------------------------------------------
(* Errors: "nil" is no error, "none" marks a call that has not returned *)

ErrGetActiveWindow == "xdotool getactivewindow: exit status 1"
ErrGetWindowName   == "xdotool getwindowname: exit status 1"
ErrXclipMissing    == "xclip is not installed"
ErrStart           == "fork/exec: resource temporarily unavailable"
ErrExit            == "exit status 1"
ErrPaste           == "failed to paste: exit status 1"
ErrEnter           == "failed to press enter: exit status 1"

Errors == {ErrGetActiveWindow, ErrGetWindowName, ErrXclipMissing, ErrStart,
           ErrExit, ErrPaste, ErrEnter}

\* argument of time.Sleep between paste and Return, in milliseconds
SleepMs == 50

----------------------------------------------------------------------------
(* isX11 *)

X11 == <<"x", "1", "1">>

isX11_CaseSensitive(s) == s = X11

\* isX11: strings.ToLower(os.Getenv("XDG_SESSION_TYPE")) == "x11"
isX11(s) == ToLower(s) = X11

----------------------------------------------------------------------------
Init ==
    /\ goos \in GOOSValues
    /\ session \in SessionValues
    /\ pc = "idle"
    /\ text = 0
    /\ events = <<>>
    /\ windowID = <<>>
    /\ nameArg = <<>>
    /\ focusedWindow = NilWindow
    /\ gfwErr = "none"
    /\ called = FALSE
    /\ cmd = "nil"
    /\ copyRet = "none"
    /\ pasteRet = "none"
    /\ execRet = "none"
    /\ writer = "none"
    /\ wLeft = 0
    /\ copier = "none"
    /\ osBuf = 0
    /\ helper = "none"

Log(op, ok, ms) == events' = Append(events, Event(op, ok, ms))

----------------------------------------------------------------------------
(* Action.Execute and Window.GetFocusedWindow *)

\* Execute(transcription) is entered and calls window.GetFocusedWindow()
Execute ==
    /\ pc = "idle"
    /\ \E t \in 1..MaxChunks : text' = t
    /\ pc' = "getactivewindow"
    /\ UNCHANGED <<goos, session, events, windowID, nameArg, focusedWindow,
                   gfwErr, called, cmd, copyRet, pasteRet, execRet, writer,
                   wLeft, copier, osBuf, helper>>

\* exec.Command("xdotool", "getactivewindow").Output() and its error check
GetActiveWindow ==
    /\ pc = "getactivewindow"
    /\ \/ /\ Log("xdotool getactivewindow", FALSE, 0)
          /\ gfwErr' = ErrGetActiveWindow
          /\ focusedWindow' = NilWindow
          /\ pc' = "gfw_returned"
          /\ UNCHANGED windowID
       \/ /\ Log("xdotool getactivewindow", TRUE, 0)
          /\ \E w \in Windows : windowID' = w.id \o <<NL>>
          /\ pc' = "getwindowname"
          /\ UNCHANGED <<gfwErr, focusedWindow>>
    /\ UNCHANGED <<goos, session, text, nameArg, called, cmd, copyRet,
                   pasteRet, execRet, writer, wLeft, copier, osBuf, helper>>

\* exec.Command("xdotool", "getwindowname", TrimSpace(windowID)).Output(),
\* its error check and the construction of the returned Window
GetWindowName ==
    /\ pc = "getwindowname"
    /\ nameArg' = TrimSpace(windowID)
    /\ \/ /\ Log("xdotool getwindowname", FALSE, 0)
          /\ gfwErr' = ErrGetWindowName
          /\ focusedWindow' = NilWindow
       \/ /\ \E w \in Windows : w.id = nameArg'
          /\ Log("xdotool getwindowname", TRUE, 0)
          /\ gfwErr' = "nil"
          /\ focusedWindow' =
                [isNil |-> FALSE,
                 Title |-> TrimSpace(WindowNameOutput(nameArg'))]
    /\ pc' = "gfw_returned"
    /\ UNCHANGED <<goos, session, text, windowID, called, cmd, copyRet,
                   pasteRet, execRet, writer, wLeft, copier, osBuf, helper>>

\* Execute after GetFocusedWindow returned: the error check, the title
\* predicate and the call of clipboard.PasteWithReturn(transcription)
ExecuteAfterWindow ==
    /\ pc = "gfw_returned"
    /\ IF gfwErr # "nil"
       THEN /\ execRet' = gfwErr
            /\ pc' = "done"
            /\ UNCHANGED called
       ELSE IF ~Contains(focusedWindow.Title, Signature)
       THEN /\ execRet' = "nil"
            /\ pc' = "done"
            /\ UNCHANGED called
       ELSE /\ called' = TRUE
            /\ pc' = "copy_switch"
            /\ UNCHANGED execRet
    /\ UNCHANGED <<goos, session, text, events, windowID, nameArg,
                   focusedWindow, gfwErr, cmd, copyRet, pasteRet, writer,
                   wLeft, copier, osBuf, helper>>

\* Execute after PasteWithReturn returned: the result is dropped
ExecuteAfterPaste ==
    /\ pc = "paste_returned"
    /\ execRet' = "nil"
    /\ pc' = "done"
    /\ UNCHANGED <<goos, session, text, events, windowID, nameArg,
                   focusedWindow, gfwErr, called, cmd, copyRet, pasteRet,
                   writer, wLeft, copier, osBuf, helper>>

----------------------------------------------------------------------------
(* Clipboard.CopyToClipboard *)

\* the switch on runtime.GOOS: the command is built for darwin and linux
\* only; on linux LookPath guards it and the writer goroutine is started
CopySwitch ==
    /\ pc = "copy_switch"
    /\ \/ /\ goos = "darwin"
          /\ cmd' = "pbcopy"
          /\ pc' = "copy_run"
          /\ UNCHANGED <<events, copyRet, writer, wLeft>>
       \/ /\ goos = "linux"
          /\ Log("exec.LookPath xclip", FALSE, 0)
          /\ copyRet' = ErrXclipMissing
          /\ pc' = "copy_returned"
          /\ UNCHANGED <<cmd, writer, wLeft>>
       \/ /\ goos = "linux"
          /\ Log("exec.LookPath xclip", TRUE, 0)
          /\ cmd' = "xclip"
          /\ writer' = "write"
          /\ wLeft' = text
          /\ pc' = "copy_run"
          /\ UNCHANGED copyRet
       \/ /\ goos \notin {"darwin", "linux"}
          /\ pc' = "copy_run"
          /\ UNCHANGED <<events, cmd, copyRet, writer, wLeft>>
    /\ UNCHANGED <<goos, session, text, windowID, nameArg, focusedWindow,
                   gfwErr, called, pasteRet, execRet, copier, osBuf, helper>>

\* cmd.Run(), first half (Start): a nil command is dereferenced and the
\* goroutine panics; otherwise the helper is started, and for a command
\* whose Stdin is the pipe reader the stdin copy goroutine is started
CmdRunStart ==
    /\ pc = "copy_run"
    /\ \/ /\ cmd = "nil"
          /\ pc' = "panic"
          /\ UNCHANGED <<events, copyRet, helper, copier>>
       \/ /\ cmd # "nil"
          /\ Log(cmd, FALSE, 0)
          /\ copyRet' = ErrStart
          /\ pc' = "copy_returned"
          /\ UNCHANGED <<helper, copier>>
       \/ /\ cmd # "nil"
          /\ Log(cmd, TRUE, 0)
          /\ helper' = "running"
          /\ copier' = IF cmd = "xclip" THEN "read" ELSE "none"
          /\ pc' = "copy_wait"
          /\ UNCHANGED copyRet
    /\ UNCHANGED <<goos, session, text, windowID, nameArg, focusedWindow,
                   gfwErr, called, cmd, pasteRet, execRet, writer, wLeft,
                   osBuf>>

\* cmd.Run(), second half (Wait): returns once the helper has exited and
\* the stdin copy goroutine has ended; the error is the helper's exit status
CmdRunWait ==
    /\ pc = "copy_wait"
    /\ helper \in {"exited_ok", "exited_fail"}
    /\ copier \in {"none", "done"}
    /\ copyRet' = IF helper = "exited_ok" THEN "nil" ELSE ErrExit
    /\ pc' = "copy_returned"
    /\ UNCHANGED <<goos, session, text, events, windowID, nameArg,
                   focusedWindow, gfwErr, called, cmd, pasteRet, execRet,
                   writer, wLeft, copier, osBuf, helper>>

\* the goroutine: pipeWriter.Write([]byte(text)) returns when every byte
\* has been taken by a Read; its result is not looked at
WriterWriteReturn ==
    /\ writer = "write"
    /\ wLeft = 0
    /\ writer' = "close"
    /\ UNCHANGED <<goos, session, pc, text, events, windowID, nameArg,
                   focusedWindow, gfwErr, called, cmd, copyRet, pasteRet,
                   execRet, wLeft, copier, osBuf, helper>>

\* the goroutine: the deferred pipeWriter.Close()
WriterClose ==
    /\ writer = "close"
    /\ writer' = "done"
    /\ UNCHANGED <<goos, session, pc, text, events, windowID, nameArg,
                   focusedWindow, gfwErr, called, cmd, copyRet, pasteRet,
                   execRet, wLeft, copier, osBuf, helper>>

\* exec's stdin copy: a Read of the pipe reader takes one chunk of the
\* pending Write, or sees end of file once the writer has closed
CopierRead ==
    /\ copier = "read"
    /\ \/ /\ writer = "write"
          /\ wLeft > 0
          /\ wLeft' = wLeft - 1
          /\ copier' = "write"
       \/ /\ writer = "done"
          /\ copier' = "done"
          /\ UNCHANGED wLeft
    /\ UNCHANGED <<goos, session, pc, text, events, windowID, nameArg,
                   focusedWindow, gfwErr, called, cmd, copyRet, pasteRet,
                   execRet, writer, osBuf, helper>>

\* exec's stdin copy: the chunk is written to the helper's stdin; once the
\* helper has exited the write fails with EPIPE, which ends the copy and is
\* not reported
CopierWrite ==
    /\ copier = "write"
    /\ \/ /\ helper = "running"
          /\ osBuf < PipeCap
          /\ osBuf' = osBuf + 1
          /\ copier' = "read"
       \/ /\ helper # "running"
          /\ copier' = "done"
          /\ UNCHANGED osBuf
    /\ UNCHANGED <<goos, session, pc, text, events, windowID, nameArg,
                   focusedWindow, gfwErr, called, cmd, copyRet, pasteRet,
                   execRet, writer, wLeft, helper>>

\* the helper process reads a chunk of its stdin
HelperRead ==
    /\ helper = "running"
    /\ osBuf > 0
    /\ osBuf' = osBuf - 1
    /\ UNCHANGED <<goos, session, pc, text, events, windowID, nameArg,
                   focusedWindow, gfwErr, called, cmd, copyRet, pasteRet,
                   execRet, writer, wLeft, copier, helper>>

\* the helper process exits, at the end of its input or before, with
\* success or not
HelperExit ==
    /\ helper = "running"
    /\ helper' \in {"exited_ok", "exited_fail"}
    /\ UNCHANGED <<goos, session, pc, text, events, windowID, nameArg,
                   focusedWindow, gfwErr, called, cmd, copyRet, pasteRet,
                   execRet, writer, wLeft, copier, osBuf>>

----------------------------------------------------------------------------
(* Clipboard.PasteWithReturn *)

\* a PasteWithReturn that goes on to the key synthesis whatever the copy
\* returned
PasteAfterCopy_NoCheck ==
    /\ pc = "copy_returned"
    /\ pc' = IF isX11(session) THEN "x11_paste" ELSE "shim_paste"
    /\ UNCHANGED <<goos, session, text, events, windowID, nameArg,
                   focusedWindow, gfwErr, called, cmd, copyRet, pasteRet,
                   execRet, writer, wLeft, copier, osBuf, helper>>

\* the check of CopyToClipboard's error and the choice of the path
PasteAfterCopy ==
    /\ pc = "copy_returned"
    /\ IF copyRet # "nil"
       THEN /\ pasteRet' = copyRet
            /\ pc' = "paste_returned"
       ELSE /\ pc' = IF isX11(session) THEN "x11_paste" ELSE "shim_paste"
            /\ UNCHANGED pasteRet
    /\ UNCHANGED <<goos, session, text, events, windowID, nameArg,
                   focusedWindow, gfwErr, called, cmd, copyRet, execRet,
                   writer, wLeft, copier, osBuf, helper>>

\* robotgo.KeyTap("v", "ctrl"): the result is dropped
X11Paste ==
    /\ pc = "x11_paste"
    /\ \E ok \in BOOLEAN : Log("robotgo.KeyTap v ctrl", ok, 0)
    /\ pc' = "x11_enter"
    /\ UNCHANGED <<goos, session, text, windowID, nameArg, focusedWindow,
                   gfwErr, called, cmd, copyRet, pasteRet, execRet, writer,
                   wLeft, copier, osBuf, helper>>

\* robotgo.KeyTap("enter"): the result is dropped, nil is returned
X11Enter ==
    /\ pc = "x11_enter"
    /\ \E ok \in BOOLEAN : Log("robotgo.KeyTap enter", ok, 0)
    /\ pasteRet' = "nil"
    /\ pc' = "paste_returned"
    /\ UNCHANGED <<goos, session, text, windowID, nameArg, focusedWindow,
                   gfwErr, called, cmd, copyRet, execRet, writer, wLeft,
                   copier, osBuf, helper>>

\* exec.Command("xdotool", "key", "ctrl+v").Run() and its error check
ShimPaste ==
    /\ pc = "shim_paste"
    /\ \/ /\ Log("xdotool key ctrl+v", FALSE, 0)
          /\ pasteRet' = ErrPaste
          /\ pc' = "paste_returned"
       \/ /\ Log("xdotool key ctrl+v", TRUE, 0)
          /\ pc' = "shim_sleep"
          /\ UNCHANGED pasteRet
    /\ UNCHANGED <<goos, session, text, windowID, nameArg, focusedWindow,
                   gfwErr, called, cmd, copyRet, execRet, writer, wLeft,
                   copier, osBuf, helper>>

\* a shim path that presses Return at once
ShimSleep_Skip ==
    /\ pc = "shim_sleep"
    /\ pc' = "shim_enter"
    /\ UNCHANGED <<goos, session, text, events, windowID, nameArg,
                   focusedWindow, gfwErr, called, cmd, copyRet, pasteRet,
                   execRet, writer, wLeft, copier, osBuf, helper>>

\* time.Sleep(50 * time.Millisecond)
ShimSleep ==
    /\ pc = "shim_sleep"
    /\ Log("time.Sleep", TRUE, SleepMs)
    /\ pc' = "shim_enter"
    /\ UNCHANGED <<goos, session, text, windowID, nameArg, focusedWindow,
                   gfwErr, called, cmd, copyRet, pasteRet, execRet, writer,
                   wLeft, copier, osBuf, helper>>

\* exec.Command("xdotool", "key", "Return").Run() and its error check
ShimEnter ==
    /\ pc = "shim_enter"
    /\ \/ /\ Log("xdotool key Return", FALSE, 0)
          /\ pasteRet' = ErrEnter
       \/ /\ Log("xdotool key Return", TRUE, 0)
          /\ pasteRet' = "nil"
    /\ pc' = "paste_returned"
    /\ UNCHANGED <<goos, session, text, windowID, nameArg, focusedWindow,
                   gfwErr, called, cmd, copyRet, execRet, writer, wLeft,
                   copier, osBuf, helper>>

----------------------------------------------------------------------------
Next ==
    \/ Execute
    \/ GetActiveWindow
    \/ GetWindowName
    \/ ExecuteAfterWindow
    \/ CopySwitch
    \/ CmdRunStart
    \/ CmdRunWait
    \/ WriterWriteReturn
    \/ WriterClose
    \/ CopierRead
    \/ CopierWrite
    \/ HelperRead
    \/ HelperExit
    \/ PasteAfterCopy
    \/ X11Paste
    \/ X11Enter
    \/ ShimPaste
    \/ ShimSleep
    \/ ShimEnter
    \/ ExecuteAfterPaste

Spec == Init /\ [][Next]_vars

----------------------------------------------------------------------------
(* Vocabulary of the properties *)

Ops == {events[i].op : i \in DOMAIN events}

PasteOps  == {"robotgo.KeyTap v ctrl", "xdotool key ctrl+v"}
CommitOps == {"robotgo.KeyTap enter", "xdotool key Return"}
KeyOps    == PasteOps \cup CommitOps
ClipboardOps == {"exec.LookPath xclip", "xclip", "pbcopy"}

PasteIdx  == {i \in DOMAIN events : events[i].op \in PasteOps}
CommitIdx == {i \in DOMAIN events : events[i].op \in CommitOps}

\* Execute has not yet evaluated the title predicate
BeforePredicate ==
    pc \in {"idle", "getactivewindow", "getwindowname", "gfw_returned"}

InSynthesis == pc \in {"x11_paste", "x11_enter", "shim_paste", "shim_sleep",
                       "shim_enter"}

\* sub occurs in T as a run of adjacent characters, compared exactly
OccursIn(sub, T) ==
    \E i \in 1..Len(T) :
        \A j \in 1..Len(sub) : i + j - 1 <= Len(T) /\ T[i + j - 1] = sub[j]

\* s is "x11" up to the case of its letters
FoldEqX11(s) ==
    /\ Len(s) = 3
    /\ s[1] \in {"x", "X"}
    /\ s[2] = "1"
    /\ s[3] = "1"

AllWhite(s) == \A i \in DOMAIN s : s[i] \in WhiteSpace

\* t is raw without the white space at its two ends
IsTrimOf(t, raw) ==
    /\ t # <<>> => (t[1] \notin WhiteSpace /\ t[Len(t)] \notin WhiteSpace)
    /\ \E i \in 0..Len(raw) :
          /\ i + Len(t) <= Len(raw)
          /\ AllWhite(SubSeq(raw, 1, i))
          /\ SubSeq(raw, i + 1, i + Len(t)) = t
          /\ AllWhite(SubSeq(raw, i + Len(t) + 1, Len(raw)))

----------------------------------------------------------------------------
(* C1: whenever CopyToClipboard has returned an error (xclip not found    *)
(* included), no paste or commit keystroke is or has been issued on       *)
(* either path, and PasteWithReturn returns that same error.               *)
C1_NoSynthesisAfterCopyError ==
    copyRet \notin {"none", "nil"} =>
        /\ Ops \cap KeyOps = {}
        /\ ~InSynthesis
        /\ pasteRet \in {"none", copyRet}
        /\ pc \in {"paste_returned", "done"} => pasteRet = copyRet

C1_Witness ==
    /\ copyRet = ErrXclipMissing
    /\ pasteRet = ErrXclipMissing
    /\ pc = "done"

(* C2: per PasteWithReturn call the clipboard, paste and commit steps run *)
(* at most once and in that order; on both paths a failed step stops the  *)
(* call, which then returns an error; nil is returned only when all three *)
(* steps succeeded.                                                        *)
C2_StateMachine ==
    /\ Cardinality(PasteIdx) <= 1
    /\ Cardinality(CommitIdx) <= 1
    /\ \A i \in PasteIdx : copyRet = "nil"
    /\ \A i \in CommitIdx : \E j \in PasteIdx : j < i /\ events[j].ok
    /\ pasteRet = "nil" =>
          /\ copyRet = "nil"
          /\ \E i \in PasteIdx : events[i].ok
          /\ \E i \in CommitIdx : events[i].ok
    /\ (pasteRet # "none" /\ \E i \in PasteIdx \cup CommitIdx : ~events[i].ok)
          => pasteRet \in Errors

(* C3: when the window matched and PasteWithReturn failed, Execute        *)
(* returns a non-nil error; Execute returns nil without a completed       *)
(* injection only when the title predicate did not match.                  *)
C3_ExecutePropagates ==
    execRet # "none" =>
        /\ (called /\ pasteRet \in Errors) => execRet \in Errors
        /\ (execRet = "nil" /\ called) => pasteRet = "nil"

(* C4: after a successful focused-window query with title T, Execute      *)
(* calls PasteWithReturn iff "VSC" occurs case-sensitively in T (never    *)
(* for the empty title); when it does not occur Execute returns nil with  *)
(* no clipboard call and no keystroke synthesis.                           *)
C4_TitleGate ==
    (~BeforePredicate /\ gfwErr = "nil") =>
        /\ called <=> OccursIn(Signature, focusedWindow.Title)
        /\ focusedWindow.Title = <<>> => ~called
        /\ ~called =>
              /\ pc = "done"
              /\ execRet = "nil"
              /\ Ops \cap (KeyOps \cup ClipboardOps) = {}
              /\ copyRet = "none"
              /\ pasteRet = "none"

C4_Witness ==
    /\ gfwErr = "nil"
    /\ focusedWindow.Title = TerminalTitle
    /\ execRet = "nil"
    /\ ~called

(* C5: on the Linux path CopyToClipboard returns only after the writer    *)
(* goroutine has written the payload and closed the pipe and the helper   *)
(* has exited, whatever the interleaving (a helper that exits before      *)
(* reading the whole payload included), and a failure on either side      *)
(* shows in the returned error.                                            *)
C5_CopyJoinsWriterAndHelper ==
    (goos = "linux" /\ helper # "none" /\ copyRet # "none") =>
        /\ writer = "done"
        /\ wLeft = 0
        /\ helper \in {"exited_ok", "exited_fail"}
        /\ helper = "exited_fail" => copyRet \in Errors

(* C6: isX11 depends on the XDG_SESSION_TYPE value alone and holds        *)
(* exactly when the value is "x11" up to case; unset/empty, "wayland" and *)
(* "unknown" select the xdotool path; PasteWithReturn uses the direct     *)
(* robotgo key synthesis iff the classification is X11.                    *)
C6_SessionClassification ==
    /\ isX11(session) <=> FoldEqX11(session)
    /\ \A s \in SessionValues : isX11(s) <=> FoldEqX11(s)
    /\ (pc \in {"x11_paste", "x11_enter"}
          \/ Ops \cap {"robotgo.KeyTap v ctrl", "robotgo.KeyTap enter"} # {})
          => FoldEqX11(session)
    /\ (pc \in {"shim_paste", "shim_sleep", "shim_enter"}
          \/ Ops \cap {"xdotool key ctrl+v", "time.Sleep", "xdotool key Return"} # {})
          => ~FoldEqX11(session)
    /\ (pasteRet = "nil" /\ FoldEqX11(session))
          => {"robotgo.KeyTap v ctrl", "robotgo.KeyTap enter"} \subseteq Ops
    /\ (pasteRet = "nil" /\ ~FoldEqX11(session))
          => {"xdotool key ctrl+v", "xdotool key Return"} \subseteq Ops

C6_Witness ==
    /\ session = <<"X", "1", "1">>
    /\ pasteRet = "nil"
    /\ "robotgo.KeyTap enter" \in Ops

(* C7: on the X11 path the commit keystroke directly follows the paste    *)
(* keystroke and no delay is ever issued; on the xdotool path Return is   *)
(* issued only directly after a non-zero sleep that directly follows a    *)
(* successful Ctrl+V.                                                      *)
C7_SynthesisOrder ==
    /\ \A i \in DOMAIN events :
          events[i].op = "robotgo.KeyTap enter" =>
              /\ i > 1
              /\ events[i - 1].op = "robotgo.KeyTap v ctrl"
    /\ "robotgo.KeyTap v ctrl" \in Ops => "time.Sleep" \notin Ops
    /\ \A i \in DOMAIN events :
          events[i].op = "xdotool key Return" =>
              /\ i > 2
              /\ events[i - 1].op = "time.Sleep"
              /\ events[i - 1].ms > 0
              /\ events[i - 2] = Event("xdotool key ctrl+v", TRUE, 0)
    /\ pc = "shim_enter" => events[Len(events)].op = "time.Sleep"

C7_Witness ==
    /\ pasteRet = "nil"
    /\ "xdotool key Return" \in Ops
    /\ "time.Sleep" \in Ops

(* C8: GetFocusedWindow issues the id query, then the title query for     *)
(* that id; a failed id query means no title query; either failure gives  *)
(* the underlying error and no window; on success the window is non-nil   *)
(* and its title is the trimmed title reported for that id.                *)
C8_GetFocusedWindow ==
    /\ "xdotool getwindowname" \in Ops =>
          /\ events[1] = Event("xdotool getactivewindow", TRUE, 0)
          /\ events[2].op = "xdotool getwindowname"
          /\ \E w \in Windows : windowID = w.id \o <<NL>> /\ nameArg = w.id
    /\ gfwErr # "none" =>
          /\ events[1].op = "xdotool getactivewindow"
          /\ ~events[1].ok =>
                /\ "xdotool getwindowname" \notin Ops
                /\ gfwErr = ErrGetActiveWindow
                /\ focusedWindow.isNil
          /\ (events[1].ok /\ ~events[2].ok) =>
                /\ gfwErr = ErrGetWindowName
                /\ focusedWindow.isNil
          /\ gfwErr = "nil" <=> (events[1].ok /\ events[2].ok)
          /\ gfwErr = "nil" =>
                /\ ~focusedWindow.isNil
                /\ \E w \in Windows :
                      /\ nameArg = w.id
                      /\ IsTrimOf(focusedWindow.Title, w.name)

C8_Witness ==
    /\ gfwErr = "nil"
    /\ nameArg = <<"1", "1">>
    /\ focusedWindow.Title = <<"V", "S", "C">>

(* C9 as stated: with the title "file.py - Visual Studio Code" and the    *)
(* signature "VSC" the predicate is true and Execute calls                *)
(* PasteWithReturn.                                                        *)
C9_VSCodeTitleInjects ==
    (~BeforePredicate /\ gfwErr = "nil" /\ focusedWindow.Title = VSCodeTitle)
        => called

(* C9 amended: with the title "file.py - Visual Studio Code" and the      *)
(* signature "VSC" the predicate is false, since V, S and C are not       *)
(* adjacent in the title: Execute returns nil and PasteWithReturn is not  *)
(* called; a title holding "VSC" itself, such as "a.go - VSCode", makes   *)
(* the predicate true and PasteWithReturn is called.                       *)
C9_VSCodeTitleSkipped ==
    /\ (~BeforePredicate /\ gfwErr = "nil" /\ focusedWindow.Title = VSCodeTitle)
          => /\ ~called
             /\ execRet = "nil"
             /\ pc = "done"
             /\ Len(events) = 2
    /\ (~BeforePredicate /\ gfwErr = "nil" /\ nameArg = <<"1", "0">>)
          => called

C9_Witness ==
    /\ gfwErr = "nil"
    /\ focusedWindow.Title = VSCodeTitle
    /\ nameArg = <<"7">>
    /\ pc = "done"
    /\ execRet = "nil"

(* C10: for every GOOS value CopyToClipboard has built a command before   *)
(* it runs it, so the run step never sees a nil command and the call      *)
(* ends by returning nil or an error, not by a crash.                      *)
C10_CommandBuiltBeforeRun ==
    /\ pc = "copy_run" => cmd # "nil"
    /\ pc # "panic"

====
